---- MODULE Spec2Model ----
(***************************************************************************)
(* Stock ledger and reservation engine of maef-backend:                     *)
(* app/models/inventory.py (Inventory, StockMovement, StockReservation).    *)
(*                                                                          *)
(* One Inventory row is modelled together with the StockMovement and        *)
(* StockReservation objects its methods create.  Every method is a pure     *)
(* operator over the record World (the Inventory object, the movements      *)
(* handed to db_session.add, the reservation objects), computed statement   *)
(* by statement as the Python code computes it; the actions apply them.     *)
(*                                                                          *)
(* Further specifications: SpecConc and SpecRace (callers interleaving on   *)
(* one row), SpecSched (app/core/scheduler.py and its jobs), SpecSweep (a   *)
(* sweeper pass over expired reservations), SpecOrder (one order over       *)
(* several rows, app/repositories/order_repo.py) and SpecQuery (the         *)
(* read-only availability properties).                                      *)
(***************************************************************************)
EXTENDS Integers, Sequences, FiniteSets

\* ---------------------------------------------------------------- bounds
\* number of method calls and flushes in one behaviour
MaxOps == 3
\* largest quantity argument of adjust_stock / reserve_stock
MaxQty == 2
\* largest qty_on_hand of the initial row
MaxOnHand == 2
\* number of concurrent reserve_stock callers (SpecConc)
NProcs == 2
\* number of distinct Inventory rows one order reserves (SpecOrder)
NRecords == 2
\* largest number of expired refresh tokens / old empty carts awaiting cleanup
MaxRows == 2

\* ------------------------------------------------------- optional values
\* Python None and a present value v
None == << >>
Some(v) == << v >>
\* Python truthiness of an optional boolean / datetime column value
Truthy(v) == v # None /\ v[1] # FALSE

VARIABLES
  inventory,     \* the Inventory object: qty_on_hand, qty_reserved, qty_committed, last_movement_at
  movements,     \* StockMovement objects handed to db_session.add, oldest first
  reservations,  \* StockReservation objects created so far, oldest first
  last,          \* the latest call: its name, arguments, result and the World it started from
  nops,          \* calls made so far; the clock read by datetime.utcnow()
  initial,       \* the World the behaviour started from
  procs,         \* concurrent callers (SpecConc, SpecRace): position and arguments
  sched,         \* the APScheduler instance: registered jobs, the rows they clean, the log
  order,         \* one order over several Inventory rows (SpecOrder): status, rows, progress
  query          \* the latest read of qty_available / can_fulfill / stock_status (SpecQuery)

vars == << inventory, movements, reservations, last, nops, initial, procs, sched, order, query >>

\* StockMovementType (the enum's values)
StockMovementType ==
  { "restock", "sale", "return", "damaged", "adjustment", "reserved", "unreserved", "transfer" }

\* the record the methods read and write
World == [ inventory |-> inventory, movements |-> movements, reservations |-> reservations ]

\* datetime.utcnow(): strictly later at every call
utcnow == nops + 1

\* Inventory.__table_args__: the CHECK constraints the database evaluates when
\* the row is written (session flush / commit)
CheckConstraints(inv) ==
  /\ inv.qty_on_hand >= 0
  /\ inv.qty_reserved >= 0
  /\ inv.qty_reserved <= inv.qty_on_hand

\* qty_available with qty_committed added back instead of taken off
qty_available_adding_committed(inv) == inv.qty_on_hand - inv.qty_reserved + inv.qty_committed

\* Inventory.qty_available
qty_available(inv) == inv.qty_on_hand - inv.qty_reserved - inv.qty_committed

\* can_fulfill without qty_committed (what CartItem.available_stock computes)
can_fulfill_ignoring_committed(inv, quantity) ==
  inv.qty_on_hand - inv.qty_reserved >= quantity

\* Inventory.can_fulfill
can_fulfill(inv, quantity) == qty_available(inv) >= quantity

\* adjust_stock that keeps only its own movement in the history
adjust_stock_overwriting_history(w, quantity_change, movement_type, reference, db_session, t) ==
  LET old_qty == w.inventory.qty_on_hand
      new_qty == old_qty + quantity_change
      movement == [ movement_type   |-> movement_type,
                    quantity        |-> quantity_change,
                    quantity_before |-> old_qty,
                    quantity_after  |-> new_qty,
                    reference       |-> reference ]
  IN  [ w EXCEPT !.inventory.qty_on_hand = new_qty,
                 !.inventory.last_movement_at = IF db_session THEN Some(t) ELSE @,
                 !.movements = IF db_session THEN << movement >> ELSE @ ]

\* Inventory.is_low_stock, is_critical_stock, is_out_of_stock
is_low_stock(inv) == qty_available(inv) <= inv.low_stock_threshold

is_critical_stock(inv) == qty_available(inv) <= inv.critical_stock_threshold

is_out_of_stock(inv) == qty_available(inv) <= 0

\* stock_status with the low threshold tested before the critical one
stock_status_low_first(inv) ==
  IF is_out_of_stock(inv) THEN "out_of_stock"
  ELSE IF is_low_stock(inv) THEN "low"
  ELSE IF is_critical_stock(inv) THEN "critical"
  ELSE "available"

\* Inventory.stock_status
stock_status(inv) ==
  IF is_out_of_stock(inv) THEN "out_of_stock"
  ELSE IF is_critical_stock(inv) THEN "critical"
  ELSE IF is_low_stock(inv) THEN "low"
  ELSE "available"

\* Inventory.adjust_stock: no check of the result; the movement reaches the
\* history (and last_movement_at is stamped) only when a db_session is given
adjust_stock(w, quantity_change, movement_type, reference, db_session, t) ==
  LET old_qty == w.inventory.qty_on_hand
      new_qty == old_qty + quantity_change
      movement == [ movement_type   |-> movement_type,
                    quantity        |-> quantity_change,
                    quantity_before |-> old_qty,
                    quantity_after  |-> new_qty,
                    reference       |-> reference ]
  IN  [ w EXCEPT !.inventory.qty_on_hand = new_qty,
                 !.inventory.last_movement_at = IF db_session THEN Some(t) ELSE @,
                 !.movements = IF db_session THEN Append(@, movement) ELSE @ ]

\* StockReservation(inventory_id, quantity, reference, expires_at): is_active is not
\* passed, and Column(Boolean, default=True) is applied by the INSERT, so the new
\* object reads is_active = None until its session is flushed
NewReservation(quantity, reference, expires_at, db_session) ==
  [ quantity     |-> quantity,
    reference    |-> reference,
    is_active    |-> None,
    expires_at   |-> expires_at,
    released_at  |-> None,
    fulfilled_at |-> None,
    orm_state    |-> IF db_session THEN "pending" ELSE "transient" ]

\* reserve_stock that takes the reserved units out of qty_on_hand at once
reserve_update_taking_on_hand(w, quantity, reference, expires_at, db_session, t) ==
  LET w1 == [ w EXCEPT !.inventory.qty_reserved = @ + quantity,
                       !.inventory.qty_on_hand = @ - quantity ]
      w2 == [ w1 EXCEPT !.reservations =
                Append(@, NewReservation(quantity, reference, expires_at, db_session)) ]
  IN  [ world  |-> IF db_session
                   THEN adjust_stock(w2, 0, "reserved", reference, db_session, t)
                   ELSE w2,
        result |-> "Reservation" ]

\* Inventory.reserve_stock, the statements after the can_fulfill check
reserve_update(w, quantity, reference, expires_at, db_session, t) ==
  LET w1 == [ w EXCEPT !.inventory.qty_reserved = @ + quantity ]
      w2 == [ w1 EXCEPT !.reservations =
                Append(@, NewReservation(quantity, reference, expires_at, db_session)) ]
  IN  [ world  |-> IF db_session
                   THEN adjust_stock(w2, 0, "reserved", reference, db_session, t)
                   ELSE w2,
        result |-> "Reservation" ]

\* Inventory.reserve_stock: returns the new reservation (the last of
\* reservations) or None
reserve_stock(w, quantity, reference, expires_at, db_session, t) ==
  IF ~can_fulfill(w.inventory, quantity)
  THEN [ world |-> w, result |-> "None" ]
  ELSE reserve_update(w, quantity, reference, expires_at, db_session, t)

\* unreserve_stock with the body of fulfill_reservation pasted in: qty_on_hand is
\* lowered too
unreserve_stock_lowering_on_hand(w, r, db_session, t) ==
  IF Truthy(w.reservations[r].is_active)
  THEN LET w1 == [ w EXCEPT !.inventory.qty_reserved = @ - w.reservations[r].quantity,
                            !.inventory.qty_on_hand = @ - w.reservations[r].quantity,
                            !.reservations[r].is_active = Some(FALSE),
                            !.reservations[r].released_at = Some(t) ]
       IN  IF db_session
           THEN adjust_stock(w1, 0, "unreserved", w.reservations[r].reference, db_session, t)
           ELSE w1
  ELSE w

\* unreserve_stock without its `if reservation.is_active` guard
unreserve_stock_unguarded(w, r, db_session, t) ==
  LET w1 == [ w EXCEPT !.inventory.qty_reserved = @ - w.reservations[r].quantity,
                       !.reservations[r].is_active = Some(FALSE),
                       !.reservations[r].released_at = Some(t) ]
  IN  IF db_session
      THEN adjust_stock(w1, 0, "unreserved", w.reservations[r].reference, db_session, t)
      ELSE w1

\* unreserve_stock that leaves the reservation's is_active flag set
unreserve_stock_staying_active(w, r, db_session, t) ==
  IF Truthy(w.reservations[r].is_active)
  THEN LET w1 == [ w EXCEPT !.inventory.qty_reserved = @ - w.reservations[r].quantity,
                            !.reservations[r].released_at = Some(t) ]
       IN  IF db_session
           THEN adjust_stock(w1, 0, "unreserved", w.reservations[r].reference, db_session, t)
           ELSE w1
  ELSE w

\* Inventory.unreserve_stock, the statements under `if reservation.is_active`
unreserve_update(w, r, db_session, t) ==
  LET w1 == [ w EXCEPT !.inventory.qty_reserved = @ - w.reservations[r].quantity,
                       !.reservations[r].is_active = Some(FALSE),
                       !.reservations[r].released_at = Some(t) ]
  IN  IF db_session
      THEN adjust_stock(w1, 0, "unreserved", w.reservations[r].reference, db_session, t)
      ELSE w1

\* Inventory.unreserve_stock
unreserve_stock(w, r, db_session, t) ==
  IF Truthy(w.reservations[r].is_active)
  THEN unreserve_update(w, r, db_session, t)
  ELSE w

\* fulfill_reservation without its `if reservation.is_active` guard
fulfill_reservation_unguarded(w, r, db_session, t) ==
  LET w1 == [ w EXCEPT !.inventory.qty_reserved = @ - w.reservations[r].quantity,
                       !.inventory.qty_on_hand = @ - w.reservations[r].quantity,
                       !.reservations[r].is_active = Some(FALSE),
                       !.reservations[r].fulfilled_at = Some(t) ]
  IN  IF db_session
      THEN adjust_stock(w1, 0 - w.reservations[r].quantity, "sale",
                        w.reservations[r].reference, db_session, t)
      ELSE w1

\* Inventory.fulfill_reservation, the statements under `if reservation.is_active`:
\* qty_on_hand is lowered here and, with a db_session, a second time inside
\* adjust_stock(-quantity, SALE)
fulfill_update(w, r, db_session, t) ==
  LET w1 == [ w EXCEPT !.inventory.qty_reserved = @ - w.reservations[r].quantity,
                       !.inventory.qty_on_hand = @ - w.reservations[r].quantity,
                       !.reservations[r].is_active = Some(FALSE),
                       !.reservations[r].fulfilled_at = Some(t) ]
  IN  IF db_session
      THEN adjust_stock(w1, 0 - w.reservations[r].quantity, "sale",
                        w.reservations[r].reference, db_session, t)
      ELSE w1

\* Inventory.fulfill_reservation
fulfill_reservation(w, r, db_session, t) ==
  IF Truthy(w.reservations[r].is_active)
  THEN fulfill_update(w, r, db_session, t)
  ELSE w

\* is_expired that counts the instant expires_at itself as expired
is_expired_inclusive(res, now) == res.expires_at # None /\ now >= res.expires_at[1]

\* StockReservation.is_expired at time now: `self.expires_at and utcnow() > self.expires_at`
is_expired(res, now) == res.expires_at # None /\ now > res.expires_at[1]

\* StockReservation.should_be_released at time now
should_be_released(res, now) == Truthy(res.is_active) /\ is_expired(res, now)

\* Session flush (SessionLocal has autoflush=False, so only an explicit flush or
\* commit writes): the INSERT of a pending reservation applies the column default
\* is_active = True
flush_reservation(res) ==
  IF res.orm_state = "pending"
  THEN [ res EXCEPT !.orm_state = "persistent",
                    !.is_active = IF @ = None THEN Some(TRUE) ELSE @ ]
  ELSE res

\* ---------------------------------------------------------------- inputs
\* (quantity_change, movement_type) pairs a caller passes to adjust_stock: a
\* restock for a gain, damaged goods for a loss
AdjustCalls ==
  { [ quantity_change |-> q,
      movement_type   |-> IF q > 0 THEN "restock" ELSE "damaged" ]
    : q \in ((0 - MaxQty) .. MaxQty) \ {0} }

\* (reference, expires_at) pairs a caller passes to reserve_stock
ReserveCalls ==
  { [ reference |-> Some("order-A"), expires_at |-> None ],
    [ reference |-> Some("order-B"), expires_at |-> Some(1) ] }

\* quantities a caller passes to reserve_stock (zero and negative included)
ReserveQuantities == (0 - 1) .. MaxQty

\* ------------------------------------------------------------ initial row
\* a row with no reservation and qty_committed <= qty_on_hand, or a row with one
\* reservation committed earlier (reserve_stock with a session, then commit)
\* and its `reserved` movement; qty_available >= 0 in all of them
InitialWorlds ==
  { [ inventory    |-> [ qty_on_hand |-> x[1], qty_reserved |-> 0, qty_committed |-> x[2],
                         last_movement_at |-> None ],
      movements    |-> << >>,
      reservations |-> << >> ]
    : x \in { y \in (0 .. MaxOnHand) \X {0, 1} : y[2] <= y[1] } }
  \cup
  { [ inventory    |-> [ qty_on_hand |-> x[1], qty_reserved |-> x[2], qty_committed |-> 0,
                         last_movement_at |-> Some(0) ],
      movements    |-> << [ movement_type |-> "reserved", quantity |-> 0,
                            quantity_before |-> x[1], quantity_after |-> x[1],
                            reference |-> Some("order-A") ] >>,
      reservations |-> << [ quantity |-> x[2], reference |-> Some("order-A"),
                            is_active |-> Some(TRUE), expires_at |-> None,
                            released_at |-> None, fulfilled_at |-> None,
                            orm_state |-> "persistent" ] >> ]
    : x \in (1 .. MaxOnHand) \X {1} }

\* the record of a call: its name, its arguments (unused ones at their defaults),
\* what it returned ("None" or "Reservation"), what it raised ("" for nothing)
\* and the World it started from
CallRecord(op, quantity, movement_type, reference, expires_at, res, db_session, result, raised, w) ==
  [ op |-> op, quantity |-> quantity, movement_type |-> movement_type,
    reference |-> reference, expires_at |-> expires_at, res |-> res,
    db_session |-> db_session, result |-> result, raised |-> raised, pre |-> w ]

NoCall(w) == CallRecord("init", 0, "", None, None, 0, FALSE, "None", "", w)

\* init_scheduler with SCHEDULER_ENABLED off: no scheduler, no job
NoScheduler == [ jobs |-> {}, expired_tokens |-> 0, empty_carts |-> 0, log |-> "" ]

\* no order is being placed
NoOrder == [ status |-> "none", stock |-> << >>, before |-> << >>, item |-> 1,
             out_of_stock |-> FALSE, db_session |-> FALSE ]

\* nothing has been read yet; the row carries the column defaults of the thresholds
NoQuery ==
  [ op |-> "", quantity |-> 0, result |-> None,
    inventory |-> [ qty_on_hand |-> 0, qty_reserved |-> 0, qty_committed |-> 0,
                    low_stock_threshold |-> 5, critical_stock_threshold |-> 1 ] ]

IdleProcs ==
  [ p \in 1 .. NProcs |->
      [ pc |-> "idle", op |-> "", quantity |-> 0, reference |-> None, res |-> 0,
        db_session |-> FALSE ] ]

Init ==
  /\ \E w \in InitialWorlds :
       /\ inventory = w.inventory
       /\ movements = w.movements
       /\ reservations = w.reservations
       /\ initial = w
       /\ last = NoCall(w)
  /\ nops = 0
  /\ procs = IdleProcs
  /\ sched = NoScheduler
  /\ order = NoOrder
  /\ query = NoQuery

\* ---------------------------------------------------------------- actions
SetWorld(w) ==
  /\ inventory' = w.inventory
  /\ movements' = w.movements
  /\ reservations' = w.reservations

Called(call) ==
  /\ last' = call
  /\ nops' = nops + 1
  /\ UNCHANGED << initial, procs, sched, order, query >>

\* a caller runs adjust_stock
Adjust ==
  /\ nops < MaxOps
  /\ \E c \in AdjustCalls, db_session \in BOOLEAN :
       /\ SetWorld(adjust_stock(World, c.quantity_change, c.movement_type, None,
                                db_session, utcnow))
       /\ Called(CallRecord("adjust", c.quantity_change, c.movement_type, None, None, 0,
                            db_session, "None", "", World))

\* a caller runs reserve_stock
Reserve ==
  /\ nops < MaxOps
  /\ \E quantity \in ReserveQuantities, c \in ReserveCalls, db_session \in BOOLEAN :
       LET out == reserve_stock(World, quantity, c.reference, c.expires_at,
                                db_session, utcnow)
       IN  /\ SetWorld(out.world)
           /\ Called(CallRecord("reserve", quantity, "", c.reference, c.expires_at, 0,
                                db_session, out.result, "", World))

\* a caller runs unreserve_stock on one of the reservation objects
Release ==
  /\ nops < MaxOps
  /\ \E r \in 1 .. Len(reservations), db_session \in BOOLEAN :
       /\ SetWorld(unreserve_stock(World, r, db_session, utcnow))
       /\ Called(CallRecord("release", 0, "", None, None, r, db_session, "None", "", World))

\* a caller runs fulfill_reservation on one of the reservation objects
Fulfill ==
  /\ nops < MaxOps
  /\ \E r \in 1 .. Len(reservations), db_session \in BOOLEAN :
       /\ SetWorld(fulfill_reservation(World, r, db_session, utcnow))
       /\ Called(CallRecord("fulfill", 0, "", None, None, r, db_session, "None", "", World))

\* the caller flushes / commits its session: the database rejects the write
\* (IntegrityError) when the row breaks a CHECK constraint; a rollback afterwards
\* would only restore an earlier World and is not modelled
Flush ==
  /\ nops < MaxOps
  /\ IF CheckConstraints(inventory)
     THEN /\ reservations' = [ i \in 1 .. Len(reservations) |->
                                 flush_reservation(reservations[i]) ]
          /\ UNCHANGED << inventory, movements >>
          /\ Called(CallRecord("flush", 0, "", None, None, 0, TRUE, "None", "", World))
     ELSE /\ UNCHANGED << inventory, movements, reservations >>
          /\ Called(CallRecord("flush", 0, "", None, None, 0, TRUE, "None",
                               "IntegrityError", World))

Next == Adjust \/ Reserve \/ Release \/ Fulfill \/ Flush

Spec == Init /\ [][Next]_vars

\* the calls on reservations alone: no adjust_stock
NextHold == Reserve \/ Release \/ Fulfill \/ Flush

SpecHold == Init /\ [][NextHold]_vars

\* ------------------------------------------- concurrent reserve_stock calls
\* Several callers run reserve_stock on the same Inventory object with no lock
\* (the method takes none): each call is its check, `if not self.can_fulfill(quantity)`,
\* and later its update, the statements that follow, and the calls interleave.

\* the check of caller p: returns None at once, or goes on to the update
ReserveCheck(p) ==
  /\ procs[p].pc = "idle"
  /\ \E quantity \in 1 .. MaxQty, c \in ReserveCalls, db_session \in BOOLEAN :
       procs' = [ procs EXCEPT ![p] =
                    [ pc |-> IF can_fulfill(inventory, quantity) THEN "checked" ELSE "none",
                      op |-> "reserve", quantity |-> quantity, reference |-> c.reference,
                      res |-> 0, db_session |-> db_session ] ]
  /\ UNCHANGED << inventory, movements, reservations, last, nops, initial, sched, order, query >>

\* the update of caller p: qty_reserved += quantity, the reservation, the movement
ReserveUpdate(p) ==
  /\ procs[p].pc = "checked"
  /\ procs[p].op = "reserve"
  /\ SetWorld(reserve_update(World, procs[p].quantity, procs[p].reference, None,
                             procs[p].db_session, utcnow).world)
  /\ procs' = [ procs EXCEPT ![p].pc = "reserved" ]
  /\ nops' = nops + 1
  /\ UNCHANGED << last, initial, sched, order, query >>

NextConc ==
  \/ \E p \in 1 .. NProcs : ReserveCheck(p)
  \/ \E p \in 1 .. NProcs : ReserveUpdate(p)

SpecConc == Init /\ [][NextConc]_vars

\* ------------------------------ concurrent unreserve_stock / fulfill_reservation
\* Callers run unreserve_stock and fulfill_reservation on the same Inventory and
\* StockReservation objects with no lock: each call is its check,
\* `if reservation.is_active`, and later the statements under it.

\* the check of caller p in unreserve_stock (op "release") or fulfill_reservation
\* (op "fulfill"): falls through at once, or goes on to the update
ActiveCheck(p, op) ==
  /\ procs[p].pc = "idle"
  /\ \E r \in 1 .. Len(reservations), db_session \in BOOLEAN :
       procs' = [ procs EXCEPT ![p] =
                    [ pc |-> IF Truthy(reservations[r].is_active) THEN "checked" ELSE "none",
                      op |-> op, quantity |-> 0, reference |-> None,
                      res |-> r, db_session |-> db_session ] ]
  /\ UNCHANGED << inventory, movements, reservations, last, nops, initial, sched, order, query >>

ReleaseCheck(p) == ActiveCheck(p, "release")

FulfillCheck(p) == ActiveCheck(p, "fulfill")

\* the update of caller p in unreserve_stock
ReleaseUpdate(p) ==
  /\ procs[p].pc = "checked"
  /\ procs[p].op = "release"
  /\ SetWorld(unreserve_update(World, procs[p].res, procs[p].db_session, utcnow))
  /\ procs' = [ procs EXCEPT ![p].pc = "released" ]
  /\ nops' = nops + 1
  /\ UNCHANGED << last, initial, sched, order, query >>

\* the update of caller p in fulfill_reservation
FulfillUpdate(p) ==
  /\ procs[p].pc = "checked"
  /\ procs[p].op = "fulfill"
  /\ SetWorld(fulfill_update(World, procs[p].res, procs[p].db_session, utcnow))
  /\ procs' = [ procs EXCEPT ![p].pc = "fulfilled" ]
  /\ nops' = nops + 1
  /\ UNCHANGED << last, initial, sched, order, query >>

NextRace ==
  \/ \E p \in 1 .. NProcs : ReleaseCheck(p)
  \/ \E p \in 1 .. NProcs : ReleaseUpdate(p)
  \/ \E p \in 1 .. NProcs : FulfillCheck(p)
  \/ \E p \in 1 .. NProcs : FulfillUpdate(p)

SpecRace == Init /\ [][NextRace]_vars

\* ------------------------------------------------------- the scheduler
\* app/core/scheduler.py: the periodic jobs the application registers and runs.
\* The clock moves by itself here (Tick), refresh tokens expire and empty carts
\* grow old; the Inventory row starts with one committed Active reservation
\* whose expires_at is unset, already past, or still ahead.

\* add_periodic_jobs: the ids of the jobs it registers
add_periodic_jobs(ig_configured) ==
  { "cleanup_expired_tokens", "cleanup_abandoned_carts" }
  \cup (IF ig_configured THEN { "ingest_instagram_stories" } ELSE {})

\* the rows with one reservation, its expires_at set by the caller of reserve_stock
SchedWorlds ==
  { [ w EXCEPT !.reservations[1].expires_at = e ]
    : w \in { v \in InitialWorlds : Len(v.reservations) = 1 },
      e \in { None } \cup { Some(t) : t \in 0 .. MaxOps } }

InitSched ==
  /\ \E w \in SchedWorlds :
       /\ inventory = w.inventory
       /\ movements = w.movements
       /\ reservations = w.reservations
       /\ initial = w
       /\ last = NoCall(w)
  /\ nops = 0
  /\ procs = IdleProcs
  /\ \E ig_configured \in BOOLEAN :
       sched = [ jobs |-> add_periodic_jobs(ig_configured),
                 expired_tokens |-> 0, empty_carts |-> 0, log |-> "" ]
  /\ order = NoOrder
  /\ query = NoQuery

\* cleanup_expired_tokens_job: revokes every expired refresh token and logs the
\* count, or logs the error of a failed run; the whole body is one try/except
CleanupExpiredTokensJob ==
  /\ "cleanup_expired_tokens" \in sched.jobs
  /\ \E fails \in BOOLEAN :
       sched' = IF fails
                THEN [ sched EXCEPT !.log = "Erreur nettoyage tokens" ]
                ELSE [ sched EXCEPT !.expired_tokens = 0, !.log = "Nettoyage tokens" ]
  /\ UNCHANGED << inventory, movements, reservations, last, nops, initial, procs, order, query >>

\* cleanup_abandoned_carts_job: deletes every old empty cart and logs the count,
\* or logs the error of a failed run
CleanupAbandonedCartsJob ==
  /\ "cleanup_abandoned_carts" \in sched.jobs
  /\ \E fails \in BOOLEAN :
       sched' = IF fails
                THEN [ sched EXCEPT !.log = "Erreur nettoyage paniers" ]
                ELSE [ sched EXCEPT !.empty_carts = 0, !.log = "Nettoyage paniers" ]
  /\ UNCHANGED << inventory, movements, reservations, last, nops, initial, procs, order, query >>

\* ingest_instagram_stories_job: logs a line, nothing else
IngestInstagramStoriesJob ==
  /\ "ingest_instagram_stories" \in sched.jobs
  /\ sched' = [ sched EXCEPT !.log = "Ingestion Instagram stories" ]
  /\ UNCHANGED << inventory, movements, reservations, last, nops, initial, procs, order, query >>

\* a refresh token passes its expires_at unrevoked
TokenExpires ==
  /\ sched.expired_tokens < MaxRows
  /\ sched' = [ sched EXCEPT !.expired_tokens = @ + 1 ]
  /\ UNCHANGED << inventory, movements, reservations, last, nops, initial, procs, order, query >>

\* an empty cart passes the cutoff of cleanup_empty_carts
CartAbandoned ==
  /\ sched.empty_carts < MaxRows
  /\ sched' = [ sched EXCEPT !.empty_carts = @ + 1 ]
  /\ UNCHANGED << inventory, movements, reservations, last, nops, initial, procs, order, query >>

\* time passes: datetime.utcnow() reads a later value
Tick ==
  /\ nops < MaxOps
  /\ nops' = nops + 1
  /\ UNCHANGED << inventory, movements, reservations, last, initial, procs, sched, order, query >>

NextSched ==
  \/ CleanupExpiredTokensJob
  \/ CleanupAbandonedCartsJob
  \/ IngestInstagramStoriesJob
  \/ TokenExpires
  \/ CartAbandoned
  \/ Tick

\* every registered job keeps being run by the scheduler
SchedFairness ==
  /\ WF_vars(CleanupExpiredTokensJob)
  /\ WF_vars(CleanupAbandonedCartsJob)
  /\ WF_vars(IngestInstagramStoriesJob)

SpecSched == InitSched /\ [][NextSched]_vars /\ SchedFairness

\* ------------------------------------------------------ the expiry sweeper
\* One pass of the ExpirySweeper as section 4.3 of the specification describes
\* it (the repository holds no such pass): every reservation for which
\* should_be_released() is true is handed to unreserve_stock, oldest first.
RECURSIVE sweep_from(_, _, _, _)
sweep_from(w, r, db_session, now) ==
  IF r > Len(w.reservations)
  THEN w
  ELSE sweep_from(IF should_be_released(w.reservations[r], now)
                  THEN unreserve_stock(w, r, db_session, now)
                  ELSE w,
                  r + 1, db_session, now)

sweep(w, db_session, now) == sweep_from(w, 1, db_session, now)

\* the rows a pass can meet: no reservation yet, or one committed Active
\* reservation with or without an expiry
InitSweep ==
  /\ \E w \in SchedWorlds \cup { v \in InitialWorlds : Len(v.reservations) = 0 } :
       /\ inventory = w.inventory
       /\ movements = w.movements
       /\ reservations = w.reservations
       /\ initial = w
       /\ last = NoCall(w)
  /\ nops = 0
  /\ procs = IdleProcs
  /\ sched = NoScheduler
  /\ order = NoOrder
  /\ query = NoQuery

\* one sweeper pass
Sweep ==
  /\ nops < MaxOps
  /\ \E db_session \in BOOLEAN :
       /\ SetWorld(sweep(World, db_session, utcnow))
       /\ Called(CallRecord("sweep", 0, "", None, None, 0, db_session, "None", "", World))

NextSweep == Reserve \/ Flush \/ Sweep

SpecSweep == InitSweep /\ [][NextSweep]_vars

\* ------------------------------------------------- one order, several rows
\* A checkout caller reserves the items of one order, one Inventory row after
\* another, each with reserve_stock under the order's reference; the only code
\* that handles an order that cannot go on is OrderRepository.cancel_order.

\* the reference the caller passes for the order
OrderReference == Some("order-A")

\* the rows before the order: nothing reserved, nothing committed
OrderRows ==
  { [ inventory    |-> [ qty_on_hand |-> h, qty_reserved |-> 0, qty_committed |-> 0,
                         last_movement_at |-> None ],
      movements    |-> << >>,
      reservations |-> << >> ] : h \in 0 .. MaxOnHand }

InitOrder ==
  /\ \E w \in InitialWorlds :
       /\ Len(w.reservations) = 0
       /\ w.inventory.qty_committed = 0
       /\ w.inventory.qty_on_hand = 0
       /\ inventory = w.inventory
       /\ movements = w.movements
       /\ reservations = w.reservations
       /\ initial = w
       /\ last = NoCall(w)
  /\ nops = 0
  /\ procs = IdleProcs
  /\ sched = NoScheduler
  /\ query = NoQuery
  /\ \E stock \in [ 1 .. NRecords -> OrderRows ], db_session \in BOOLEAN :
       order = [ status |-> "pending", stock |-> stock, before |-> stock, item |-> 1,
                 out_of_stock |-> FALSE, db_session |-> db_session ]

\* the caller reserves the next item of the order: reserve_stock on its row,
\* with the order's session or without one; a None result (out of stock) ends
\* the reserving
OrderReserveItem ==
  /\ order.status = "pending"
  /\ ~order.out_of_stock
  /\ order.item <= NRecords
  /\ \E quantity \in 1 .. MaxQty :
       LET out == reserve_stock(order.stock[order.item], quantity, OrderReference, None,
                                order.db_session, utcnow)
       IN  order' = [ order EXCEPT !.stock[order.item] = out.world,
                                   !.item = @ + 1,
                                   !.out_of_stock = (out.result = "None") ]
  /\ nops' = nops + 1
  /\ UNCHANGED << inventory, movements, reservations, last, initial, procs, sched, query >>

\* OrderRepository.cancel_order: a pending order becomes cancelled, the stock
\* reservations are left as they are (TODO in the code), and the session is
\* committed, which writes every row and inserts the pending reservations
cancel_order(o) ==
  IF o.status \in { "pending", "confirmed" }
  THEN [ o EXCEPT !.status = "cancelled",
                  !.stock = [ i \in 1 .. Len(o.stock) |->
                                [ o.stock[i] EXCEPT !.reservations =
                                    [ r \in 1 .. Len(o.stock[i].reservations) |->
                                        flush_reservation(o.stock[i].reservations[r]) ] ] ] ]
  ELSE o

CancelOrder ==
  /\ order.status = "pending"
  /\ order' = cancel_order(order)
  /\ nops' = nops + 1
  /\ UNCHANGED << inventory, movements, reservations, last, initial, procs, sched, query >>

NextOrder == OrderReserveItem \/ CancelOrder

SpecOrder == InitOrder /\ [][NextOrder]_vars

\* --------------------------------------- a reservation handed to another row
\* unreserve_stock and fulfill_reservation take the reservation as an argument
\* and never compare reservation.inventory_id with self.id: a caller can hand
\* row x a reservation that row y owns.

\* the rows: each any initial row; the single-row variables stay at an empty row
InitCross ==
  /\ \E w \in InitialWorlds :
       /\ Len(w.reservations) = 0
       /\ w.inventory.qty_committed = 0
       /\ w.inventory.qty_on_hand = 0
       /\ inventory = w.inventory
       /\ movements = w.movements
       /\ reservations = w.reservations
       /\ initial = w
       /\ last = NoCall(w)
  /\ nops = 0
  /\ procs = IdleProcs
  /\ sched = NoScheduler
  /\ query = NoQuery
  /\ \E stock \in [ 1 .. NRecords -> InitialWorlds ] :
       order = [ NoOrder EXCEPT !.stock = stock, !.before = stock ]

\* row x with reservation r of row y put where the method's `reservation`
\* argument is: the last of the reservations the call can reach
WithArgument(stock, x, y, r) ==
  [ stock[x] EXCEPT !.reservations = Append(@, stock[y].reservations[r]) ]

\* the rows after a call on row x that was given reservation r of row y and
\* ended in the World out: row x keeps its own reservations, row y gets its
\* reservation back as the call left it
AfterCall(stock, x, y, r, out) ==
  IF x = y
  THEN [ stock EXCEPT ![x] = [ out EXCEPT !.reservations =
                                 [ i \in 1 .. Len(stock[x].reservations) |->
                                     IF i = r THEN out.reservations[Len(out.reservations)]
                                     ELSE out.reservations[i] ] ] ]
  ELSE [ stock EXCEPT ![x] = [ out EXCEPT !.reservations = stock[x].reservations ],
                      ![y] = [ @ EXCEPT !.reservations[r] =
                                 out.reservations[Len(out.reservations)] ] ]

\* a caller runs rows[x].unreserve_stock(reservation r of row y)
ReleaseOn ==
  /\ nops < MaxOps
  /\ \E x \in 1 .. NRecords, y \in 1 .. NRecords, db_session \in BOOLEAN :
       \E r \in 1 .. Len(order.stock[y].reservations) :
         LET w   == WithArgument(order.stock, x, y, r)
             out == unreserve_stock(w, Len(w.reservations), db_session, utcnow)
         IN  order' = [ order EXCEPT !.stock = AfterCall(order.stock, x, y, r, out) ]
  /\ nops' = nops + 1
  /\ UNCHANGED << inventory, movements, reservations, last, initial, procs, sched, query >>

\* a caller runs rows[x].fulfill_reservation(reservation r of row y)
FulfillOn ==
  /\ nops < MaxOps
  /\ \E x \in 1 .. NRecords, y \in 1 .. NRecords, db_session \in BOOLEAN :
       \E r \in 1 .. Len(order.stock[y].reservations) :
         LET w   == WithArgument(order.stock, x, y, r)
             out == fulfill_reservation(w, Len(w.reservations), db_session, utcnow)
         IN  order' = [ order EXCEPT !.stock = AfterCall(order.stock, x, y, r, out) ]
  /\ nops' = nops + 1
  /\ UNCHANGED << inventory, movements, reservations, last, initial, procs, sched, query >>

NextCross == ReleaseOn \/ FulfillOn

SpecCross == InitCross /\ [][NextCross]_vars

\* --------------------------------------------------------- availability reads
\* qty_available, can_fulfill and stock_status read on an Inventory row whose
\* quantities and thresholds take any small value: negative ones, zero, a
\* critical threshold above the low one.

\* thresholds a row can carry
QueryThresholds == (0 - 1) .. MaxQty

QueryRows ==
  { [ qty_on_hand |-> x[1], qty_reserved |-> x[2], qty_committed |-> x[3],
      low_stock_threshold |-> x[4], critical_stock_threshold |-> x[5] ]
    : x \in ((0 - 1) .. MaxOnHand) \X ((0 - 1) .. MaxQty) \X {0, 1}
             \X QueryThresholds \X QueryThresholds }

\* quantities a caller passes to can_fulfill
QueryQuantities == (0 - 1) .. MaxQty

InitQuery ==
  /\ \E w \in InitialWorlds :
       /\ Len(w.reservations) = 0
       /\ w.inventory.qty_committed = 0
       /\ w.inventory.qty_on_hand = 0
       /\ inventory = w.inventory
       /\ movements = w.movements
       /\ reservations = w.reservations
       /\ initial = w
       /\ last = NoCall(w)
  /\ nops = 0
  /\ procs = IdleProcs
  /\ sched = NoScheduler
  /\ order = NoOrder
  /\ \E row \in QueryRows : query = [ NoQuery EXCEPT !.inventory = row ]

Read(op, quantity, result) ==
  /\ query' = [ query EXCEPT !.op = op, !.quantity = quantity, !.result = Some(result) ]
  /\ UNCHANGED << inventory, movements, reservations, last, nops, initial, procs, sched, order >>

\* a caller reads inventory.qty_available
ReadQtyAvailable == Read("qty_available", 0, qty_available(query.inventory))

\* a caller runs inventory.can_fulfill(quantity)
ReadCanFulfill ==
  \E quantity \in QueryQuantities :
    Read("can_fulfill", quantity, can_fulfill(query.inventory, quantity))

\* a caller reads inventory.stock_status
ReadStockStatus == Read("stock_status", 0, stock_status(query.inventory))

\* CartItem.available_stock of an item without a variant whose product has
\* the Inventory row inv as product.inventory[0]
available_stock(inv) == inv.qty_on_hand - inv.qty_reserved

\* the errors CartItem.validate collects for such an item of an active product
\* with a positive current price: only the stock check can add one
validate(inv, quantity) ==
  LET available == available_stock(inv)
  IN  IF available <= 0 THEN << "Plus en stock" >>
      ELSE IF quantity > available THEN << "Stock insuffisant" >>
      ELSE << >>

\* a caller validates a cart item of the row's product
ReadValidate ==
  \E quantity \in QueryQuantities :
    Read("validate", quantity, validate(query.inventory, quantity))

NextQuery == ReadQtyAvailable \/ ReadCanFulfill \/ ReadStockStatus \/ ReadValidate

SpecQuery == InitQuery /\ [][NextQuery]_vars

\* ============================================================ properties
\* the World the latest call started from, and the reservation it was given
Pre == last.pre
PreRes == Pre.reservations[last.res]
OnReservation == last.op \in { "release", "fulfill" }
WasActive == OnReservation /\ Truthy(PreRes.is_active)
WasTerminal == OnReservation /\ PreRes.is_active = Some(FALSE)

\* the reservations of the starting World, all but number r, are as they were
OthersUnchanged(r) ==
  /\ Len(reservations) = Len(Pre.reservations)
  /\ \A i \in 1 .. Len(reservations) : i # r => reservations[i] = Pre.reservations[i]

\* C1: over every sequence of adjust, reserve, release and fulfill calls from a
\* row with 0 <= reserved <= on_hand, on_hand >= 0 and 0 <= reserved <= on_hand
\* hold in every state.
C1_QuantityInvariant ==
  /\ inventory.qty_on_hand >= 0
  /\ 0 <= inventory.qty_reserved
  /\ inventory.qty_reserved <= inventory.qty_on_hand

\* quantities of the concurrent reserve_stock calls that succeeded
RECURSIVE SumReserved(_)
SumReserved(P) ==
  IF P = {} THEN 0
  ELSE LET p == CHOOSE x \in P : TRUE
       IN  (IF procs[p].pc = "reserved" THEN procs[p].quantity ELSE 0)
           + SumReserved(P \ {p})

\* C2: no overselling: in every interleaving of the checks and updates of
\* concurrent reserve calls, the quantities of the calls that succeed sum to at
\* most the initial available.
C2_NoOverselling ==
  SumReserved(1 .. NProcs) <= qty_available(initial.inventory)

\* C3: fulfill of an Active reservation lowers on_hand and reserved by exactly
\* its quantity, and changes nothing else but timestamps and the one appended
\* sale Movement.  Stated for the calls that pass the session the Movement is
\* added to.
C3_FulfillConservation ==
  (last.op = "fulfill" /\ WasActive /\ last.db_session) =>
    /\ inventory.qty_on_hand = Pre.inventory.qty_on_hand - PreRes.quantity
    /\ inventory.qty_reserved = Pre.inventory.qty_reserved - PreRes.quantity
    /\ inventory.qty_committed = Pre.inventory.qty_committed
    /\ OthersUnchanged(last.res)
    /\ reservations[last.res].quantity = PreRes.quantity
    /\ reservations[last.res].reference = PreRes.reference
    /\ reservations[last.res].expires_at = PreRes.expires_at
    /\ Len(movements) = Len(Pre.movements) + 1
    /\ SubSeq(movements, 1, Len(Pre.movements)) = Pre.movements
    /\ movements[Len(movements)].movement_type = "sale"
    /\ movements[Len(movements)].quantity = 0 - PreRes.quantity

\* what adjust would have to reject
BreaksInvariant ==
  \/ Pre.inventory.qty_on_hand + last.quantity < 0
  \/ Pre.inventory.qty_reserved > Pre.inventory.qty_on_hand + last.quantity

\* C4: adjust fails with InvariantViolation whenever the result would have
\* on_hand < 0 or reserved > on_hand, and then leaves on_hand, reserved,
\* committed and the movement history as they were.
C4_AdjustRejects ==
  (last.op = "adjust" /\ BreaksInvariant) =>
    /\ last.raised = "InvariantViolation"
    /\ inventory.qty_on_hand = Pre.inventory.qty_on_hand
    /\ inventory.qty_reserved = Pre.inventory.qty_reserved
    /\ inventory.qty_committed = Pre.inventory.qty_committed
    /\ movements = Pre.movements

\* C5: reserve(quantity) with available < quantity returns None (the
\* OutOfStock result, no Reservation), raises nothing, and leaves on_hand,
\* reserved, committed, the reservations and the movement history unchanged.
C5_OutOfStock ==
  (last.op = "reserve" /\ qty_available(Pre.inventory) < last.quantity) =>
    /\ last.result = "None"
    /\ last.raised = ""
    /\ inventory = Pre.inventory
    /\ reservations = Pre.reservations
    /\ movements = Pre.movements

\* C5 witness: a reserve asking for more than the available of a row that has
\* stock on hand returned None.
C5_Witness ==
  /\ last.op = "reserve"
  /\ Pre.inventory.qty_on_hand > 0
  /\ 0 < last.quantity
  /\ qty_available(Pre.inventory) < last.quantity
  /\ last.result = "None"

\* C6: reserve(quantity) with available >= quantity raises reserved by exactly
\* quantity, leaves on_hand and committed unchanged, creates exactly one new
\* Reservation, Active, with that quantity, reference and expiry, and appends
\* one `reserved` Movement with quantity 0.  Stated for the calls that pass a
\* positive quantity and the session the Movement is added to.
C6_ReserveSucceeds ==
  (/\ last.op = "reserve"
   /\ qty_available(Pre.inventory) >= last.quantity
   /\ last.quantity > 0
   /\ last.db_session) =>
    /\ last.result = "Reservation"
    /\ inventory.qty_reserved = Pre.inventory.qty_reserved + last.quantity
    /\ inventory.qty_on_hand = Pre.inventory.qty_on_hand
    /\ inventory.qty_committed = Pre.inventory.qty_committed
    /\ Len(reservations) = Len(Pre.reservations) + 1
    /\ SubSeq(reservations, 1, Len(Pre.reservations)) = Pre.reservations
    /\ Truthy(reservations[Len(reservations)].is_active)
    /\ reservations[Len(reservations)].quantity = last.quantity
    /\ reservations[Len(reservations)].reference = last.reference
    /\ reservations[Len(reservations)].expires_at = last.expires_at
    /\ Len(movements) = Len(Pre.movements) + 1
    /\ SubSeq(movements, 1, Len(Pre.movements)) = Pre.movements
    /\ movements[Len(movements)].movement_type = "reserved"
    /\ movements[Len(movements)].quantity = 0

\* what release does to the row and the reservation, whatever the session
ReleaseEffect ==
  /\ inventory.qty_reserved = Pre.inventory.qty_reserved - PreRes.quantity
  /\ inventory.qty_on_hand = Pre.inventory.qty_on_hand
  /\ inventory.qty_committed = Pre.inventory.qty_committed
  /\ OthersUnchanged(last.res)
  /\ reservations[last.res] =
       [ PreRes EXCEPT !.is_active = Some(FALSE), !.released_at = Some(nops) ]

\* the history gained exactly one `unreserved` Movement
OneUnreservedMovement ==
  /\ Len(movements) = Len(Pre.movements) + 1
  /\ SubSeq(movements, 1, Len(Pre.movements)) = Pre.movements
  /\ movements[Len(movements)] =
       [ movement_type |-> "unreserved", quantity |-> 0,
         quantity_before |-> Pre.inventory.qty_on_hand,
         quantity_after |-> Pre.inventory.qty_on_hand,
         reference |-> PreRes.reference ]

C8_Idempotent ==
  ( \/ (last.op = "release" /\ PreRes.released_at # None)
    \/ (last.op = "fulfill" /\ PreRes.fulfilled_at # None) ) =>
    /\ last.raised = ""
    /\ inventory.qty_on_hand = Pre.inventory.qty_on_hand
    /\ inventory.qty_reserved = Pre.inventory.qty_reserved
    /\ inventory.qty_committed = Pre.inventory.qty_committed
    /\ reservations = Pre.reservations
    /\ movements = Pre.movements

\* C8 witness: a second release, with a session, of a reservation the call just
\* before it released.
C8_Witness ==
  /\ last.op = "release"
  /\ last.db_session
  /\ PreRes.quantity > 0
  /\ PreRes.released_at = Some(nops - 1)
  /\ reservations[last.res].released_at = Some(nops - 1)

\* C9 as stated: fulfill on a reservation already Released or Fulfilled fails
\* with the NotActive result and leaves on_hand, reserved, the reservation and
\* the movement history unchanged.
C9_NotActiveAsStated ==
  (last.op = "fulfill" /\ WasTerminal) =>
    /\ last.result = "NotActive"
    /\ inventory = Pre.inventory
    /\ reservations = Pre.reservations
    /\ movements = Pre.movements

\* C9 as amended: fulfill on a reservation already Released or Fulfilled
\* returns None as a successful fulfill does (no NotActive result, nothing
\* raised) and leaves on_hand, reserved, the reservation and the movement
\* history unchanged.
C9_NotActiveNoOp ==
  (last.op = "fulfill" /\ WasTerminal) =>
    /\ last.result = "None"
    /\ last.raised = ""
    /\ inventory = Pre.inventory
    /\ reservations = Pre.reservations
    /\ movements = Pre.movements

\* C9 witness: a fulfill of a reservation that had been released.
C9_Witness ==
  /\ last.op = "fulfill"
  /\ WasTerminal
  /\ PreRes.released_at # None
  /\ PreRes.quantity > 0

\* the state of a reservation: Active is is_active = True
State(res) ==
  IF Truthy(res.is_active) THEN "Active"
  ELSE IF res.released_at # None THEN "Released"
  ELSE IF res.fulfilled_at # None THEN "Fulfilled"
  ELSE "Unset"

\* C10: a Reservation created by reserve() starts Active and changes state at
\* most once, Active -> Released (released_at stamped, fulfilled_at never) or
\* Active -> Fulfilled (fulfilled_at stamped, released_at never); once terminal,
\* its state, quantity, released_at and fulfilled_at never change again.
\* "Starts Active" is stated for the reservations reserve() adds to a session.
C10_StateMachine ==
  [][ /\ Len(reservations') >= Len(reservations)
      /\ \A i \in 1 .. Len(reservations') :
           IF i > Len(reservations)
           THEN reservations'[i].orm_state = "pending" =>
                  State(reservations'[i]) = "Active"
           ELSE \/ reservations'[i] = reservations[i]
                \/ reservations[i].orm_state = "transient"
                \/ /\ State(reservations[i]) = "Active"
                   /\ reservations'[i].quantity = reservations[i].quantity
                   /\ \/ /\ State(reservations'[i]) = "Released"
                         /\ reservations'[i].released_at # None
                         /\ reservations'[i].fulfilled_at = None
                      \/ /\ State(reservations'[i]) = "Fulfilled"
                         /\ reservations'[i].fulfilled_at # None
                         /\ reservations'[i].released_at = None ]_vars

\* The part of C10 the code keeps: a reservation leaves Active at most once, with
\* exactly one of released_at and fulfilled_at stamped, and a terminal
\* reservation never changes again; before that it only goes from unset to
\* Active, at the flush that inserts it.
ReservationTransitions ==
  [][ /\ Len(reservations') >= Len(reservations)
      /\ \A i \in 1 .. Len(reservations) :
           \/ reservations'[i] = reservations[i]
           \/ /\ State(reservations[i]) = "Unset"
              /\ reservations'[i] =
                   [ reservations[i] EXCEPT !.is_active = Some(TRUE),
                                            !.orm_state = "persistent" ]
           \/ /\ State(reservations[i]) = "Active"
              /\ \/ reservations'[i] =
                      [ reservations[i] EXCEPT !.is_active = Some(FALSE),
                                               !.released_at = Some(nops') ]
                 \/ reservations'[i] =
                      [ reservations[i] EXCEPT !.is_active = Some(FALSE),
                                               !.fulfilled_at = Some(nops') ] ]_vars

\* C11: concurrent calls on one record are serialized: a release and a fulfill
\* racing on the same Active reservation lower qty_reserved by its quantity exactly
\* once (qty_reserved is its initial value or that value less the quantity) and the
\* reservation ends either Released or Fulfilled, as after some sequential order,
\* never both (SpecRace; the one reservation of the initial row is Active)
C11_Serialized ==
  Len(initial.reservations) = 1 =>
    /\ inventory.qty_reserved \in
         { initial.inventory.qty_reserved,
           initial.inventory.qty_reserved - initial.reservations[1].quantity }
    /\ ~(reservations[1].released_at # None /\ reservations[1].fulfilled_at # None)

\* C12: round trip: a reserve_stock call that returns a reservation (positive
\* quantity, with a session), followed at once by unreserve_stock of that
\* reservation, leaves qty_reserved at its value before the reserve, with
\* qty_on_hand and qty_committed unchanged
C12_RoundTrip ==
  [][ ( /\ last.op = "reserve"
        /\ last.result = "Reservation"
        /\ last.quantity > 0
        /\ last.db_session
        /\ last'.op = "release"
        /\ last'.db_session
        /\ last'.res = Len(reservations) )
      => /\ inventory'.qty_reserved = Pre.inventory.qty_reserved
         /\ inventory'.qty_on_hand = Pre.inventory.qty_on_hand
         /\ inventory'.qty_committed = Pre.inventory.qty_committed ]_vars

\* C13: expiry liveness: an Active reservation whose expires_at is earlier than
\* the current time is eventually Released, with qty_reserved lowered by its
\* quantity, by the jobs the scheduler keeps running (SpecSched: weak fairness
\* on every registered job), provided the jobs keep completing without error
C13_ExpiryLiveness ==
  ( /\ []<>(sched.log = "Nettoyage tokens")
    /\ []<>(sched.log = "Nettoyage paniers") )
  => ( should_be_released(reservations[1], utcnow)
         ~> ( /\ State(reservations[1]) = "Released"
              /\ inventory.qty_reserved =
                   initial.inventory.qty_reserved - reservations[1].quantity ) )

\* no reservation passes its expires_at between the latest call and the next one
NoneNewlyExpired ==
  \A r \in 1 .. Len(reservations) :
    is_expired(reservations[r], utcnow) => is_expired(reservations[r], utcnow - 1)

\* C14: a sweeper pass run right after a completed pass, with no reservation
\* newly expired in between, changes no quantity, no reservation and no movement
C14_SecondSweepNoOp ==
  [][ (last.op = "sweep" /\ last'.op = "sweep" /\ nops' = nops + 1 /\ NoneNewlyExpired)
      => /\ inventory' = inventory
         /\ reservations' = reservations
         /\ movements' = movements ]_vars

\* a second pass has run right after a pass that released a reservation
C14_Witness ==
  /\ last.op = "sweep"
  /\ Pre = World
  /\ \E r \in 1 .. Len(reservations) :
       /\ State(reservations[r]) = "Released"
       /\ reservations[r].released_at = Some(nops - 1)

C16_CompensatingRollback ==
  (order.status = "cancelled" /\ order.out_of_stock /\ order.db_session)
    => \A i \in 1 .. Len(order.stock) :
         /\ order.stock[i].inventory.qty_reserved = order.before[i].inventory.qty_reserved
         /\ \A r \in 1 .. Len(order.stock[i].reservations) :
              order.stock[i].reservations[r].reference = OrderReference
                => State(order.stock[i].reservations[r]) \in { "Released", "Fulfilled" }

\* the four mutating calls, and whether the latest call succeeded: adjust_stock
\* unless it had to be rejected, reserve_stock when it returns a reservation,
\* unreserve_stock and fulfill_reservation when the reservation was Active
MutatingCalls == { "adjust", "reserve", "release", "fulfill" }

Succeeded ==
  \/ last.op = "adjust" /\ ~BreaksInvariant
  \/ last.op = "reserve" /\ last.result = "Reservation"
  \/ last.op \in { "release", "fulfill" } /\ WasActive

\* the latest call appended exactly one Movement, of the type and quantity that
\* belong to the call
OneMovementOfCall ==
  /\ Len(movements) = Len(Pre.movements) + 1
  /\ SubSeq(movements, 1, Len(Pre.movements)) = Pre.movements
  /\ LET m == movements[Len(movements)]
     IN  CASE last.op = "adjust"  -> m.movement_type = last.movement_type
                                     /\ m.quantity = last.quantity
           [] last.op = "reserve" -> m.movement_type = "reserved"
           [] last.op = "release" -> m.movement_type = "unreserved"
           [] last.op = "fulfill" -> m.movement_type = "sale"
                                     /\ m.quantity = 0 - PreRes.quantity

StillPresent(h) ==
  /\ Len(movements) >= Len(h)
  /\ SubSeq(movements, 1, Len(h)) = h

\* C18: the movement history is append-only: every Movement of the state the
\* behaviour started from, and of the state before the latest call, is still
\* present at its position with identical fields
C18_AppendOnly ==
  /\ StillPresent(initial.movements)
  /\ StillPresent(Pre.movements)

\* C18 witness: a call with a session appended to a history that already held
\* two Movements, one of them older than the behaviour
C18_Witness ==
  /\ last.op \in MutatingCalls
  /\ Len(initial.movements) = 1
  /\ Len(Pre.movements) = 2
  /\ Len(movements) = 3

\* C19: for every on_hand, reserved, committed and quantity, qty_available is
\* on_hand - reserved - committed and can_fulfill(quantity) is true exactly when
\* that difference is at least quantity (SpecQuery)
C19_Available ==
  LET row == query.inventory
      available == row.qty_on_hand - row.qty_reserved - row.qty_committed
  IN  /\ query.op = "qty_available" => query.result = Some(available)
      /\ query.op = "can_fulfill" => query.result = Some(available >= query.quantity)

\* C19 witness: can_fulfill said no on a row where only qty_committed stands in
\* the way
C19_Witness ==
  /\ query.op = "can_fulfill"
  /\ query.result = Some(FALSE)
  /\ query.inventory.qty_committed > 0
  /\ query.inventory.qty_on_hand - query.inventory.qty_reserved >= query.quantity

\* C20: stock_status is the first label that matches, in the order out_of_stock
\* (available <= 0), critical (available <= critical threshold), low
\* (available <= low threshold), available, whatever the thresholds (SpecQuery)
C20_StockStatus ==
  LET row == query.inventory
      available == row.qty_on_hand - row.qty_reserved - row.qty_committed
  IN  query.op = "stock_status" =>
        query.result =
          Some(CASE available <= 0 -> "out_of_stock"
                 [] available > 0 /\ available <= row.critical_stock_threshold -> "critical"
                 [] available > 0 /\ available > row.critical_stock_threshold
                    /\ available <= row.low_stock_threshold -> "low"
                 [] OTHER -> "available")

\* C20 witness: with the critical threshold above the low one, a row whose
\* available lies between them reads critical
C20_Witness ==
  /\ query.op = "stock_status"
  /\ query.result = Some("critical")
  /\ query.inventory.critical_stock_threshold > query.inventory.low_stock_threshold
  /\ query.inventory.qty_on_hand - query.inventory.qty_reserved
       - query.inventory.qty_committed > query.inventory.low_stock_threshold

C22_BeforeAfter ==
  (last.op \in MutatingCalls /\ Len(movements) = Len(Pre.movements) + 1) =>
    LET m == movements[Len(movements)]
    IN  /\ m.quantity_before = Pre.inventory.qty_on_hand
        /\ m.quantity_after = inventory.qty_on_hand
        /\ m.quantity_after = m.quantity_before + m.quantity

\* a reservation that is Active and whose expires_at is set and strictly earlier
\* than now
DueAt(res, now) ==
  /\ State(res) = "Active"
  /\ res.expires_at # None
  /\ res.expires_at[1] < now

\* C23: should_be_released is true only of an Active reservation whose
\* expires_at is strictly earlier than the current time, and a sweeper pass (run
\* at time nops) changes no other reservation: one with no expires_at, one not
\* yet expired and one already terminal stay as they were (SpecSweep)
C23_DueOnly ==
  /\ \A r \in 1 .. Len(reservations) :
       should_be_released(reservations[r], utcnow) => DueAt(reservations[r], utcnow)
  /\ last.op = "sweep" =>
       \A r \in 1 .. Len(reservations) :
         reservations[r] # Pre.reservations[r] => DueAt(Pre.reservations[r], nops)

\* C23 witness: a pass released an expired reservation and left Active one whose
\* expires_at is the very instant of the pass
C23_Witness ==
  /\ last.op = "sweep"
  /\ \E r \in 1 .. Len(reservations) : reservations[r].released_at = Some(nops)
  /\ \E r \in 1 .. Len(reservations) :
       /\ State(reservations[r]) = "Active"
       /\ reservations[r].expires_at = Some(nops)

\* the sum of the quantities of the reservations of rs that are Active
RECURSIVE SumActive(_)
SumActive(rs) ==
  IF rs = << >> THEN 0
  ELSE (IF State(Head(rs)) = "Active" THEN Head(rs).quantity ELSE 0) + SumActive(Tail(rs))

\* C24: qty_reserved is the sum of the quantities of the row's Active
\* reservations, in every state.  Stated for rows whose reservations were all
\* made with a session and for a positive quantity.
C24_ReservedIsSumOfActive ==
  ( \A r \in 1 .. Len(reservations) :
      reservations[r].orm_state # "transient" /\ reservations[r].quantity > 0 )
    => inventory.qty_reserved = SumActive(reservations)

\* the sum of the signed quantities of the Movements of ms
RECURSIVE SumQuantity(_)
SumQuantity(ms) ==
  IF ms = << >> THEN 0 ELSE Head(ms).quantity + SumQuantity(Tail(ms))

\* C25: ledger reconciliation: qty_on_hand moves by the sum of the signed
\* quantities of the Movements appended, so that it equals the initial
\* qty_on_hand plus the sum over the history.  Stated call by call, for the
\* calls that pass the session the Movements are added to.
C25_LedgerReconciles ==
  (last.op \in MutatingCalls /\ last.db_session) =>
    inventory.qty_on_hand - Pre.inventory.qty_on_hand
      = SumQuantity(movements) - SumQuantity(Pre.movements)

\* C26: from a row with available >= 0, every sequence of reserve, release and
\* fulfill calls with no adjust keeps available = on_hand - reserved - committed
\* at or above zero (SpecHold)
C26_AvailableNonNegative ==
  inventory.qty_on_hand - inventory.qty_reserved - inventory.qty_committed >= 0

\* C27: for every quantity argument, zero and negative ones included,
\* reserve_stock leaves qty_reserved at or above its value before the call, and
\* no Active reservation holds a quantity that is not positive
C27_ReserveNeverLowers ==
  /\ last.op = "reserve" => inventory.qty_reserved >= Pre.inventory.qty_reserved
  /\ \A r \in 1 .. Len(reservations) :
       State(reservations[r]) = "Active" => reservations[r].quantity > 0

\* C28: a reservation's quantity is only ever subtracted from the row that owns
\* it: when a release or fulfill call ends the Active state of a reservation of
\* row y, qty_on_hand and qty_reserved of every other row stay as they were
\* (SpecCross)
C28_OwnerOnly ==
  [][ \A y \in 1 .. NRecords :
        \A r \in 1 .. Len(order.stock[y].reservations) :
          ( /\ State(order.stock[y].reservations[r]) = "Active"
            /\ State(order'.stock[y].reservations[r]) # "Active" )
          => \A x \in (1 .. NRecords) \ {y} :
               /\ order'.stock[x].inventory.qty_on_hand = order.stock[x].inventory.qty_on_hand
               /\ order'.stock[x].inventory.qty_reserved = order.stock[x].inventory.qty_reserved
    ]_vars

\* C29: cart validation agrees with the ledger: on a row that satisfies the
\* table's CHECK constraints, when validate reports no stock error for a
\* positive quantity N, can_fulfill(N) is true on the same row (SpecQuery)
C29_ValidateAgrees ==
  ( /\ query.op = "validate"
    /\ query.quantity > 0
    /\ CheckConstraints(query.inventory)
    /\ query.result = Some(<< >>) )
    => can_fulfill(query.inventory, query.quantity)

\* C30: adjust, reserve, release and fulfill never change qty_committed, and
\* reserve and release never change qty_on_hand (Spec)
C30_Frame ==
  /\ last.op \in MutatingCalls =>
       inventory.qty_committed = Pre.inventory.qty_committed
  /\ last.op \in { "reserve", "release" } =>
       inventory.qty_on_hand = Pre.inventory.qty_on_hand

\* a reserve call with a session that held a positive quantity on a row with
\* committed units
C30_Witness ==
  /\ last.op = "reserve"
  /\ last.db_session
  /\ last.result = "Reservation"
  /\ last.quantity > 0
  /\ inventory.qty_reserved = Pre.inventory.qty_reserved + last.quantity
  /\ inventory.qty_committed > 0

====
